---- MODULE Spec2Model ----
(***************************************************************************)
(* The dataset collector of                                                *)
(* marabou/training/scripts/cnn_classifier_dataset_collection.py, main():  *)
(* for each class, decide from <class>/status.txt whether the images have  *)
(* to be collected, purge and re-download them if so, then scan the class  *)
(* directory and delete what cv2.imread cannot decode.                     *)
(*                                                                         *)
(* The file system is part of the state: a directory is a function from    *)
(* file names to file contents, and status.txt is one of its entries.      *)
(***************************************************************************)
EXTENDS Integers, Sequences, FiniteSets, TLC

\* ------------------------------------------------------------------ bounds
\* Longest manifest (number of URL lines) of the class under study.
MaxUrls == 2
\* Number of runs of main() in a behaviour (a rerun follows a normal exit).
MaxRuns == 2

\* --------------------------------------------------------------- constants
\* Width of the zero-padded counter in an image file's name.
NameWidth == 8

Classes == <<"sunglasses", "jeans", "dress">>
NumClasses == Len(Classes)
ClassIdx == 1..NumClasses

StatusName == "status.txt"
\* A file whose name starts with a dot, left in a class directory by the
\* user or the operating system.
HiddenName == ".thumb.jpg"
DotNames == {HiddenName}

OkText == <<"O", "K">>
NokText == <<"N", "O", "K">>
\* What the specification calls the incomplete marker.
NotOkText == <<"N", "O", "T", "-", "O", "K">>

\* ----------------------------------------------------------- pure helpers
Digit(d) == <<"0", "1", "2", "3", "4", "5", "6", "7", "8", "9">>[d + 1]

RECURSIVE Str(_)
Str(n) == IF n < 10 THEN Digit(n) ELSE Str(n \div 10) \o Digit(n % 10)

RECURSIVE ZFill(_, _)
ZFill(s, w) == IF Len(s) >= w THEN s ELSE ZFill("0" \o s, w)

\* "{}.jpg".format(str(total).zfill(8))
ImageName(total) == ZFill(Str(total), NameWidth) \o ".jpg"

Whitespace == {" ", "\n", "\t", "\r"}

RECURSIVE LStrip(_)
LStrip(s) ==
    IF s # <<>> /\ Head(s) \in Whitespace THEN LStrip(Tail(s)) ELSE s

RECURSIVE RStrip(_)
RStrip(s) ==
    IF s # <<>> /\ s[Len(s)] \in Whitespace
    THEN RStrip(SubSeq(s, 1, Len(s) - 1))
    ELSE s

\* str.strip()
Strip(s) == RStrip(LStrip(s))

\* open(download_file).read().strip().split("\n"): the manifest is held as
\* its sequence of URL lines; an empty manifest splits into one empty row.
EmptyUrl == 0
Rows(lines) == IF lines = <<>> THEN <<EmptyUrl>> ELSE lines

\* glob.glob(os.path.join(class_dir, "*")): "*" does not match names that
\* start with a dot.
GlobStar(dir) == (DOMAIN dir) \ DotNames

\* Mutant of ListDir: the directory listed with glob, as line 41 does.
ListDirByGlob(dir) == (DOMAIN dir) \ DotNames

\* os.listdir(class_dir) filtered by os.path.isfile: every entry, hidden
\* ones included.
ListDir(dir) == DOMAIN dir

\* A file's content: the text a text-mode read returns, what cv2.imread
\* does with it ("img": an image, "none": None, "err": raises cv2.error),
\* and the manifest position of the URL whose body it is (0: not a body).
DecodeKinds == {"img", "none", "err"}
TextFile(t) == [text |-> t, decode |-> "none", src |-> 0]
Body(url, kind) == [text |-> <<>>, decode |-> kind, src |-> url]

\* The directory `dir` with file `name` written / removed.
WriteFile(dir, name, content) ==
    [n \in (DOMAIN dir) \cup {name} |-> IF n = name THEN content ELSE dir[n]]
RemoveFile(dir, name) == [n \in (DOMAIN dir) \ {name} |-> dir[n]]
EmptyDir == [n \in {} |-> TextFile(<<>>)]

\* Mutants of MarkerFor: 'OK' written on lines 28 and 32 too; the
\* specification's NOT-OK written on lines 28 and 32.
MarkerForAlwaysOk(collected) == OkText
MarkerForNotOk(collected) == IF collected THEN OkText ELSE NotOkText

\* What is written to status.txt: 'NOK' on lines 28 and 32, 'OK' on line 62.
MarkerFor(collected) == IF collected THEN OkText ELSE NokText

\* Mutant of StatusNotOk: the comparison made with the other marker.
StatusNotNok(class_status) == class_status # NokText

\* open(status_file).read().strip() != "OK"
StatusNotOk(class_status) == class_status # OkText

\* ------------------------------------------------------------------- state
VARIABLES
    rootExists,      \* os.path.exists(dataset_dir)
    manifest,        \* per class: does <class>.txt exist, and its URL lines
    dirExists,       \* per class: os.path.exists(class_dir)
    dirs,            \* per class: the files of class_dir, by name
    startExists,     \* dirExists as the current run found it
    startDirs,       \* dirs as the current run found it
    run,             \* number of the current run of main()
    crashed,         \* class the last run was killed collecting, 0 if none
    state,           \* "running", "exited", "raised" or "killed"
    exc,             \* the exception that ended the run, "" if none
    pc,              \* position of the run in main()
    ci,              \* index in `classes` of class_
    total,           \* the counter `total`
    collect_images,  \* the flag `collect_images`
    class_status,    \* the string `class_status`
    files,           \* what is left to remove of the list `files`
    rows,            \* the list `rows`
    url,             \* index in `rows` of the loop variable `url`
    p1Bound,         \* whether the local p_1 has been assigned in this run
    image_list,      \* what is left to scan of the list `image_list`
    scanDir,         \* class_dir as line 64 listed it
    skipped,         \* "...skipping" lines printed for the current class
    removed          \* "deleting ..." lines printed for the current class

fsVars == <<rootExists, manifest, dirExists, dirs>>
histVars == <<startExists, startDirs, run, crashed>>
localVars == <<ci, total, collect_images, class_status, files, rows, url,
               p1Bound, image_list, scanDir, skipped, removed>>
vars == <<rootExists, manifest, dirExists, dirs, startExists, startDirs, run,
          crashed, state, exc, pc, ci, total, collect_images, class_status, files,
          rows, url, p1Bound, image_list, scanDir, skipped, removed>>

\* ----------------------------------------------------------- initial states
\* Marker contents a run can find: the two the program writes, OK followed
\* by a newline (an editor's), and something else.
MarkerTexts == {OkText, OkText \o <<"\n">>, NokText, <<"?">>}

\* Names of the files a run can find next to the marker.
OldNames == {ImageName(0), HiddenName}

\* A file found in a class directory: bytes of unknown origin.
OldFile(kind) == [text |-> <<>>, decode |-> kind, src |-> 0]

\* The directories a run can find: any subset of OldNames with any decode
\* behaviour, with or without a marker.
OldImageDirs ==
    UNION {[S -> {OldFile(k) : k \in DecodeKinds}] : S \in SUBSET OldNames}
OldDirs ==
    OldImageDirs \cup
    {WriteFile(d, StatusName, TextFile(t)) : d \in OldImageDirs, t \in MarkerTexts}

ManifestLines(n) == [i \in 1..n |-> i]
NoManifest == [exists |-> FALSE, lines |-> <<>>]
Manifests ==
    {NoManifest} \cup {[exists |-> TRUE, lines |-> ManifestLines(n)] : n \in 0..MaxUrls}

\* What a run can find for one class: manifest, and directory if any.
ClassInputs ==
    {[manifest |-> m, exists |-> FALSE, dir |-> EmptyDir] : m \in Manifests}
    \cup {[manifest |-> m, exists |-> TRUE, dir |-> d] : m \in Manifests, d \in OldDirs}

\* The two plain cases: a class never collected, and a class collected
\* by an earlier run; each with a manifest of one URL.
FreshClass ==
    [manifest |-> [exists |-> TRUE, lines |-> ManifestLines(1)],
     exists |-> FALSE, dir |-> EmptyDir]
CollectedClass ==
    [manifest |-> [exists |-> TRUE, lines |-> ManifestLines(1)],
     exists |-> TRUE,
     dir |-> WriteFile(WriteFile(EmptyDir, ImageName(0), Body(1, "img")),
                       StatusName, TextFile(OkText))]
PlainInputs == {FreshClass, CollectedClass}

InitLocals ==
    /\ ci = 1
    /\ total = 0
    /\ collect_images = FALSE
    /\ class_status = <<>>
    /\ files = {}
    /\ rows = <<>>
    /\ url = 1
    /\ p1Bound = FALSE
    /\ image_list = {}
    /\ scanDir = EmptyDir
    /\ skipped = 0
    /\ removed = 0

\* A data set folder in which one class ranges over ClassInputs and the
\* other two over `plain`.
InitDataSet(plain) ==
    /\ rootExists = TRUE
    /\ \E focus \in ClassIdx :
         \E fi \in ClassInputs :
           \E pl \in [ClassIdx \ {focus} -> plain] :
             LET ds == [c \in ClassIdx |-> IF c = focus THEN fi ELSE pl[c]]
             IN  /\ manifest = [c \in ClassIdx |-> ds[c].manifest]
                 /\ dirExists = [c \in ClassIdx |-> ds[c].exists]
                 /\ dirs = [c \in ClassIdx |-> ds[c].dir]

\* No data set folder: nothing under it exists.
InitNoDataSet ==
    /\ rootExists = FALSE
    /\ manifest = [c \in ClassIdx |-> NoManifest]
    /\ dirExists = [c \in ClassIdx |-> FALSE]
    /\ dirs = [c \in ClassIdx |-> EmptyDir]

InitRun ==
    /\ startExists = dirExists
    /\ startDirs = dirs
    /\ run = 1
    /\ crashed = 0
    /\ state = "running"
    /\ exc = ""
    /\ pc = "start"
    /\ InitLocals

Init == (InitDataSet(PlainInputs) \/ InitNoDataSet) /\ InitRun

\* ----------------------------------------------------------------- actions
Running(at) == state = "running" /\ pc = at

\* An uncaught exception ends the run where it is raised.
Raise(e) == state' = "raised" /\ exc' = e /\ pc' = pc

Goto(next) == pc' = next /\ UNCHANGED <<state, exc>>

SetDir(c, d) == dirs' = [dirs EXCEPT ![c] = d]

\* Mutant of HasManifest: the check of line 23 left out.
HasManifestUnchecked(c) == TRUE

\* os.path.isfile(os.path.join(dataset_dir, class_ + ".txt"))
HasManifest(c) == manifest[c].exists

\* Lines 13-16: the data set folder must exist.
Start ==
    /\ Running("start")
    /\ IF rootExists THEN Goto("class") ELSE Raise("ValueError: no dataset folder")
    /\ UNCHANGED <<fsVars, histVars, localVars>>

\* Lines 18-24: the next class; its manifest must exist.
BeginClass ==
    /\ Running("class")
    /\ ci <= NumClasses
    /\ total' = 0
    /\ collect_images' = FALSE
    /\ IF HasManifest(ci) THEN Goto("mkdir") ELSE Raise("ValueError: no manifest")
    /\ UNCHANGED <<fsVars, histVars, ci, class_status, files, rows, url, p1Bound,
                   image_list, scanDir, skipped, removed>>

\* Lines 25-26: create the class directory.
MakeDir ==
    /\ Running("mkdir")
    /\ IF dirExists[ci]
       THEN Goto("check_status") /\ UNCHANGED dirExists
       ELSE Goto("init_status") /\ dirExists' = [dirExists EXCEPT ![ci] = TRUE]
    /\ UNCHANGED <<rootExists, manifest, dirs, histVars, localVars>>

\* Lines 27-28: the marker of a directory just created.
InitStatus ==
    /\ Running("init_status")
    /\ SetDir(ci, WriteFile(dirs[ci], StatusName, TextFile(MarkerFor(FALSE))))
    /\ Goto("check_status")
    /\ UNCHANGED <<rootExists, manifest, dirExists, histVars, localVars>>

\* Lines 29-32: a directory without a marker gets one and is collected.
CheckStatusFile ==
    /\ Running("check_status")
    /\ IF StatusName \notin DOMAIN dirs[ci]
       THEN /\ collect_images' = TRUE
            /\ SetDir(ci, WriteFile(dirs[ci], StatusName, TextFile(MarkerFor(FALSE))))
       ELSE UNCHANGED <<collect_images, dirs>>
    /\ Goto("read_status")
    /\ UNCHANGED <<rootExists, manifest, dirExists, histVars, ci, total,
                   class_status, files, rows, url, p1Bound, image_list, scanDir, skipped,
                   removed>>

\* Lines 33-35: read the marker.
ReadStatus ==
    /\ Running("read_status")
    /\ class_status' = Strip(dirs[ci][StatusName].text)
    /\ collect_images' = (collect_images \/ StatusNotOk(class_status'))
    /\ Goto("branch")
    /\ UNCHANGED <<fsVars, histVars, ci, total, files, rows, url, p1Bound,
                   image_list, scanDir, skipped, removed>>

\* Lines 36-41: already collected, or list what is to be purged.
Branch ==
    /\ Running("branch")
    /\ IF collect_images
       THEN files' = GlobStar(dirs[ci]) /\ Goto("purge")
       ELSE UNCHANGED files /\ Goto("list")
    /\ UNCHANGED <<fsVars, histVars, ci, total, collect_images, class_status,
                   rows, url, p1Bound, image_list, scanDir, skipped, removed>>

\* Lines 42-43: os.remove one listed file (glob's order is not specified).
Purge ==
    /\ Running("purge")
    /\ \E f \in files :
         /\ SetDir(ci, RemoveFile(dirs[ci], f))
         /\ files' = files \ {f}
    /\ Goto("purge")
    /\ UNCHANGED <<rootExists, manifest, dirExists, histVars, ci, total,
                   collect_images, class_status, rows, url, p1Bound, image_list, scanDir,
                   skipped, removed>>

\* Line 44: read the manifest.
ReadRows ==
    /\ Running("purge")
    /\ files = {}
    /\ rows' = Rows(manifest[ci].lines)
    /\ url' = 1
    /\ Goto("download")
    /\ UNCHANGED <<fsVars, histVars, ci, total, collect_images, class_status,
                   files, p1Bound, image_list, scanDir, skipped, removed>>

\* What requests.get(url, timeout=60) can do: return a response, raise
\* requests.ConnectionError, or raise another exception (a read timeout, a
\* malformed URL).  An empty row has no scheme: MissingSchema.
Outcomes(u) ==
    IF u = EmptyUrl THEN {"other"} ELSE {"ok", "connection", "other"}

\* Lines 45-59: one URL of the manifest.  The except clause of lines 58-59
\* formats p_1, which line 50 assigns after a request has returned: until
\* then it is unbound, and reading it raises.
Download ==
    /\ Running("download")
    /\ url <= Len(rows)
    /\ \E o \in Outcomes(rows[url]) :
         \/ /\ o = "ok"
            /\ \E kind \in DecodeKinds :
                 SetDir(ci, WriteFile(dirs[ci], ImageName(total), Body(rows[url], kind)))
            /\ total' = total + 1
            /\ p1Bound' = TRUE
            /\ url' = url + 1
            /\ Goto("download")
            /\ UNCHANGED skipped
         \/ /\ o = "connection"
            /\ IF ~p1Bound
               THEN Raise("UnboundLocalError: p_1") /\ UNCHANGED <<url, skipped>>
               ELSE Goto("download") /\ url' = url + 1 /\ skipped' = skipped + 1
            /\ UNCHANGED <<dirs, total, p1Bound>>
         \/ /\ o = "other"
            /\ Raise("RequestException")
            /\ UNCHANGED <<dirs, total, p1Bound, url, skipped>>
    /\ UNCHANGED <<rootExists, manifest, dirExists, histVars, ci, collect_images,
                   class_status, files, rows, image_list, scanDir, removed>>

\* Lines 60-62: every row was tried; mark the class collected.
MarkOk ==
    /\ Running("download")
    /\ url > Len(rows)
    /\ SetDir(ci, WriteFile(dirs[ci], StatusName, TextFile(MarkerFor(TRUE))))
    /\ Goto("list")
    /\ UNCHANGED <<rootExists, manifest, dirExists, histVars, localVars>>

\* Lines 64-67: the files to scan, the marker excepted.
ListImages ==
    /\ Running("list")
    /\ IF StatusName \in ListDir(dirs[ci])
       THEN /\ image_list' = ListDir(dirs[ci]) \ {StatusName}
            /\ scanDir' = dirs[ci]
            /\ total' = 0
            /\ Goto("scan")
       ELSE /\ UNCHANGED <<image_list, scanDir, total>>
            /\ Raise("ValueError: list.remove(x): x not in list")
    /\ UNCHANGED <<fsVars, histVars, ci, collect_images, class_status, files,
                   rows, url, p1Bound, skipped, removed>>

\* Mutant of ScanVerdict: the except clause of lines 82-83 does not delete.
ScanVerdictKeepErr(kind) ==
    CASE kind = "img" -> <<FALSE, 0>>
      [] kind = "none" -> <<TRUE, 1>>
      [] kind = "err" -> <<FALSE, 0>>

\* Lines 71-83 for a file that decodes as `kind`: <<delete, counted>>.
ScanVerdict(kind) ==
    CASE kind = "img" -> <<FALSE, 0>>
      [] kind = "none" -> <<TRUE, 1>>
      [] kind = "err" -> <<TRUE, 0>>

\* Lines 68-87: decode one file, delete it if it does not decode.
Scan ==
    /\ Running("scan")
    /\ \E im \in image_list :
         LET v == ScanVerdict(dirs[ci][im].decode)
         IN  /\ image_list' = image_list \ {im}
             /\ total' = total + v[2]
             /\ IF v[1]
                THEN SetDir(ci, RemoveFile(dirs[ci], im)) /\ removed' = removed + 1
                ELSE UNCHANGED <<dirs, removed>>
    /\ Goto("scan")
    /\ UNCHANGED <<rootExists, manifest, dirExists, histVars, ci, collect_images,
                   class_status, files, rows, url, p1Bound, scanDir, skipped>>

\* Line 88, and back to line 18.  The locals that the next iteration
\* assigns before it reads them are cleared here.
Report ==
    /\ Running("scan")
    /\ image_list = {}
    /\ ci' = ci + 1
    /\ total' = 0
    /\ collect_images' = FALSE
    /\ class_status' = <<>>
    /\ rows' = <<>>
    /\ url' = 1
    /\ skipped' = 0
    /\ removed' = 0
    /\ scanDir' = EmptyDir
    /\ Goto("class")
    /\ UNCHANGED <<fsVars, histVars, files, p1Bound, image_list>>

\* The loop of line 18 is exhausted: main() returns.
Exit ==
    /\ Running("class")
    /\ ci > NumClasses
    /\ state' = "exited"
    /\ UNCHANGED <<fsVars, histVars, localVars, pc, exc>>

\* The process is terminated, anywhere.
Kill ==
    /\ state = "running"
    /\ state' = "killed"
    /\ UNCHANGED <<fsVars, histVars, localVars, pc, exc>>

\* The script is run again on what the last run left.
Rerun ==
    /\ state = "exited"
    /\ run < MaxRuns
    /\ run' = run + 1
    /\ crashed' = 0
    /\ startExists' = dirExists
    /\ startDirs' = dirs
    /\ state' = "running"
    /\ exc' = ""
    /\ pc' = "start"
    /\ ci' = 1
    /\ p1Bound' = FALSE
    /\ UNCHANGED <<fsVars, total, collect_images, class_status, files, rows, url,
                   image_list, scanDir, skipped, removed>>

\* The run that follows a first run killed in its collecting step.
Recover ==
    /\ state = "killed"
    /\ pc \in {"purge", "download"}
    /\ run = 1
    /\ run' = 2
    /\ crashed' = ci
    /\ startExists' = dirExists
    /\ startDirs' = dirs
    /\ state' = "running"
    /\ exc' = ""
    /\ pc' = "start"
    /\ ci' = 1
    /\ p1Bound' = FALSE
    /\ total' = 0
    /\ collect_images' = FALSE
    /\ class_status' = <<>>
    /\ files' = {}
    /\ rows' = <<>>
    /\ url' = 1
    /\ skipped' = 0
    /\ UNCHANGED <<fsVars, image_list, scanDir, removed>>

Next ==
    \/ Start
    \/ BeginClass
    \/ MakeDir
    \/ InitStatus
    \/ CheckStatusFile
    \/ ReadStatus
    \/ Branch
    \/ Purge
    \/ ReadRows
    \/ Download
    \/ MarkOk
    \/ ListImages
    \/ Scan
    \/ Report
    \/ Exit
    \/ Kill
    \/ Rerun

Spec == Init /\ [][Next]_vars

\* Runs with a recovery: a killed first run is followed by a second one.
InitCrash == InitDataSet({CollectedClass}) /\ InitRun
NextCrash == Next \/ Recover
SpecCrash == InitCrash /\ [][NextCrash]_vars

\* ------------------------------------------------------ vocabulary of claims
\* The files of a class directory other than the marker.
ImageNames(dir) == (DOMAIN dir) \ {StatusName}

\* The marker exists and, trimmed, reads OK.
MarkerReadsOk(dir) ==
    /\ StatusName \in DOMAIN dir
    /\ \E pre, post \in {<<>>, <<"\n">>} : dir[StatusName].text = pre \o OkText \o post

\* A run that finds this directory has to collect the class.
NeedsCollection(exists, dir) == ~exists \/ ~MarkerReadsOk(dir)

\* Every file next to the marker decodes as an image.
Decodable(dir) == \A n \in ImageNames(dir) : dir[n].decode = "img"

\* The names of the files numbered 0 .. n-1.
Numbered(n) == {ImageName(k) : k \in 0..(n - 1)}

\* Class ci and every class after it are as the run found them.
UntouchedFrom(c) ==
    \A d \in ClassIdx : d >= c => dirs[d] = startDirs[d] /\ dirExists[d] = startExists[d]

\* The run is in the collecting step of class ci (lines 40-62).
InCollecting == pc \in {"purge", "download"}

\* The collecting step of class ci has just ended (line 62 is done).
Collected == Running("list") /\ collect_images

\* The validation pass of class ci has just ended (line 88 is next).
Validated == Running("scan") /\ image_list = {}

\* The marker of class c was written by the current run.
MarkerWritten(c) ==
    /\ StatusName \in DOMAIN dirs[c]
    /\ \/ ~startExists[c]
       \/ StatusName \notin DOMAIN startDirs[c]
       \/ dirs[c][StatusName] # startDirs[c][StatusName]

\* -------------------------------------------------------------------- claims

\* C1: a connection error on any URL, the first of the first class included,
\* is skipped without aborting the run and without advancing the counter:
\* when the collecting step ends after M skips out of N rows, the files the
\* purge can see are exactly those numbered 0 .. N-M-1 and the marker reads OK.
C1_SkipNeverAborts ==
    /\ exc # "UnboundLocalError: p_1"
    /\ Collected =>
         /\ GlobStar(dirs[ci]) \ {StatusName} = Numbered(Len(rows) - skipped)
         /\ MarkerReadsOk(dirs[ci])

\* C2: when collection is needed and every request of a manifest of N URLs
\* succeeds, the class directory then holds exactly N image files, numbered
\* 0 .. N-1 in manifest order, and the marker reads OK.
C2_AllCollected ==
    (Collected /\ skipped = 0) =>
        /\ ImageNames(dirs[ci]) = Numbered(Len(manifest[ci].lines))
        /\ \A k \in 1..Len(manifest[ci].lines) :
             dirs[ci][ImageName(k - 1)].src = manifest[ci].lines[k]
        /\ MarkerReadsOk(dirs[ci])

\* C3 as stated: a run killed in the collecting step leaves a marker that
\* exists and does not read OK.
C3_KilledLeavesNotOkMarker ==
    (state = "killed" /\ InCollecting) =>
        StatusName \in DOMAIN dirs[ci] /\ ~MarkerReadsOk(dirs[ci])

\* C3 as amended: in the collecting step the marker is absent or keeps a
\* content that does not read OK; it reads OK only once every row has been
\* tried; a run killed there leaves a directory the next run collects again:
\* the next run decides to collect that class, and by its first download the
\* files the killed run left in sight of the purge are gone and the counter
\* is back at 0.
C3_KilledNeverLeavesOk ==
    /\ InCollecting => ~MarkerReadsOk(dirs[ci])
    /\ (state = "killed" /\ InCollecting) => NeedsCollection(dirExists[ci], dirs[ci])
    /\ (ci \in ClassIdx /\ collect_images /\ MarkerReadsOk(dirs[ci])) =>
         pc \in {"list", "scan"} /\ url > Len(rows)
    /\ pc \in {"branch", "purge", "download"} =>
         collect_images = NeedsCollection(startExists[ci], startDirs[ci])
    /\ crashed \in ClassIdx => NeedsCollection(startExists[crashed], startDirs[crashed])
    /\ (crashed = ci /\ pc \in {"branch", "purge", "download", "list", "scan"}) =>
         collect_images
    /\ (crashed = ci /\ pc = "download" /\ url = 1) =>
         GlobStar(dirs[ci]) = {} /\ total = 0

\* The second run is about to download again for the class the first run was
\* killed in, which it found with one downloaded file and no marker.
C3_Witness ==
    /\ crashed = ci
    /\ Running("download")
    /\ url = 1
    /\ ImageNames(startDirs[ci]) = Numbered(1)
    /\ StatusName \notin DOMAIN startDirs[ci]
    /\ Len(rows) = 2

\* C4: a class whose marker reads OK when the run starts is never collected:
\* nothing is downloaded or purged and the marker stays as it is; if its
\* files all decode, validation changes nothing either; and a run that
\* follows a completed run leaves every directory as it found it.
C4_OkIsIdempotent ==
    /\ \A c \in ClassIdx :
         ~NeedsCollection(startExists[c], startDirs[c]) =>
            /\ StatusName \in DOMAIN dirs[c]
            /\ dirs[c][StatusName] = startDirs[c][StatusName]
            /\ DOMAIN dirs[c] \subseteq DOMAIN startDirs[c]
            /\ (c = ci /\ pc # "scan") => dirs[c] = startDirs[c]
            /\ c = ci => ~InCollecting /\ ~collect_images /\ skipped = 0
            /\ Decodable(startDirs[c]) => dirs[c] = startDirs[c]
    /\ run > 1 => dirs = startDirs /\ dirExists = startExists /\ removed = 0

C4_Witness ==
    /\ run = 2
    /\ state = "exited"
    /\ \A c \in ClassIdx : ImageNames(dirs[c]) # {}
    /\ \E c \in ClassIdx : HiddenName \in DOMAIN dirs[c]

\* C5: when the marker does not read OK as the run starts, nothing that was
\* in the class directory is left when the first download is attempted.
C5_PurgeRemovesEverything ==
    (Running("download") /\ url = 1) =>
        /\ NeedsCollection(startExists[ci], startDirs[ci])
        /\ dirs[ci] = EmptyDir

\* C6: the validation pass removes exactly the files that do not decode
\* (imread returns None, or raises), keeps those that decode and the marker,
\* and a validation that follows removes nothing.
C6_ValidationRemovesUndecodable ==
    /\ Running("scan") =>
         /\ StatusName \in DOMAIN dirs[ci]
         /\ dirs[ci][StatusName] = scanDir[StatusName]
         /\ \A n \in ImageNames(scanDir) :
              (n \in DOMAIN dirs[ci]) <=> (n \in image_list \/ scanDir[n].decode = "img")
         /\ \A n \in DOMAIN dirs[ci] : n \in DOMAIN scanDir /\ dirs[ci][n] = scanDir[n]
         /\ removed = Cardinality(DOMAIN scanDir) - Cardinality(DOMAIN dirs[ci])
    /\ run > 1 => removed = 0

C6_Witness ==
    /\ Validated
    /\ \E a, b, c \in ImageNames(scanDir) :
         /\ scanDir[a].decode = "img"
         /\ scanDir[b].decode = "none"
         /\ scanDir[c].decode = "err"
    /\ removed = 2
    /\ Cardinality(ImageNames(dirs[ci])) = 1

\* C7 as stated: a marker the run has written holds OK or NOT-OK; a new
\* directory, and a directory found without a marker, get NOT-OK.
C7_MarkerIsOkOrNotOk ==
    \A c \in ClassIdx :
        MarkerWritten(c) => dirs[c][StatusName].text \in {OkText, NotOkText}

\* C7 as amended: a marker the run has written holds OK or NOK; a new
\* directory, and a directory found without a marker, get NOK.
C7_MarkerIsOkOrNok ==
    /\ \A c \in ClassIdx :
         MarkerWritten(c) => dirs[c][StatusName].text \in {<<"O", "K">>, <<"N", "O", "K">>}
    /\ (pc \in {"check_status", "read_status", "branch"} /\ MarkerWritten(ci)) =>
         dirs[ci][StatusName].text = <<"N", "O", "K">>
    /\ (pc \in {"read_status", "branch"} /\ ~MarkerReadsOk(startDirs[ci])) =>
         StatusName \in DOMAIN dirs[ci]

C7_Witness ==
    /\ Running("read_status")
    /\ startExists[ci]
    /\ StatusName \notin DOMAIN startDirs[ci]
    /\ ImageNames(startDirs[ci]) # {}
    /\ dirs[ci][StatusName].text = <<"N", "O", "K">>

\* C8: after a run that returned, the marker of every class reads OK if and
\* only if every file left next to it decodes.
C8_OkIffDecodable ==
    state = "exited" =>
        \A c \in ClassIdx :
            /\ dirExists[c]
            /\ MarkerReadsOk(dirs[c]) <=> Decodable(dirs[c])

C8_Witness ==
    /\ state = "exited"
    /\ run = 1
    /\ \E c \in ClassIdx :
         /\ NeedsCollection(startExists[c], startDirs[c])
         /\ Cardinality(ImageNames(dirs[c])) = 2

\* C9: without the data set folder the run raises at once and changes
\* nothing; without the manifest of a class the run raises before it touches
\* that class, and that class and the later ones stay as they were.
C9_ConfigurationErrorsAreFatal ==
    /\ ~rootExists =>
         /\ pc = "start"
         /\ UntouchedFrom(1)
         /\ state # "exited"
    /\ \A c \in ClassIdx :
         (rootExists /\ ~manifest[c].exists) =>
            /\ ci <= c
            /\ UntouchedFrom(c)
            /\ state # "exited"
            /\ (ci = c /\ pc # "start") => pc = "class"
    /\ exc = "ValueError: no dataset folder" => ~rootExists
    /\ exc = "ValueError: no manifest" => ~manifest[ci].exists

C9_Witness ==
    /\ state = "raised"
    /\ exc = "ValueError: no manifest"
    /\ ci = 2
    /\ dirs[1] # startDirs[1]
    /\ dirExists[2] /\ ImageNames(dirs[2]) # {}

\* C10: when the validation pass ends, the tally it reports is the number of
\* files it deleted, whichever way the decoding failed.
C10_TallyCountsDeletions ==
    Running("scan") => total = removed

====
